---- MODULE Spec2Model ----
(***************************************************************************)
(* The netcat client of src/main.rs: main() drives one future on a         *)
(* single-threaded runtime,                                                *)
(*   get_address  ->  QuicOptions::connect  ->  run_stream_connection,     *)
(* each joined to the next by and_then, so the first error ends the run.   *)
(* The resolver, the QUIC endpoint, the QUIC connection, stdin, stdout and *)
(* the remote peer are the environment: every awaited operation may        *)
(* succeed or fail, data arrives when the environment provides it.         *)
(*                                                                         *)
(* Option<T> is modelled as a sequence of length 0 (None) or 1 (Some).     *)
(***************************************************************************)
EXTENDS Integers, Sequences, FiniteSets, TLC

\* ---------------------------------------------------------------- bounds
MaxCandidates == 2      \* longest lookup answer considered
MaxStdin == 2           \* most bytes ever typed on stdin
MaxRemote == 2          \* most bytes the remote ever sends
BufSize == 2            \* bytes one read of io::copy may return

\* ---------------------------------------------------------------- inputs
Hostnames == {"h.example"}
DnsNames == {"", "alt.example"}
Ports == {4433, 65535}
Ips == {"192.0.2.1", "2001:db8::1"}

\* io::copy never looks at the bytes it moves, so each byte is named by where
\* it came from: the k-th byte typed on stdin is k, the k-th byte the remote
\* sends is 100 + k.  Any loss, duplication, reordering, change or
\* crossing of the two directions then shows in the sequences.
StdinByte(k) == k
RemoteByte(k) == 100 + k

None == <<>>
Some(x) == <<x>>
IsSome(o) == Len(o) = 1
Unwrap(o) == o[1]

\* sequences over S of length at most n
RECURSIVE SeqsUpTo(_, _)
SeqsUpTo(S, n) ==
    IF n = 0 THEN {<<>>}
    ELSE LET shorter == SeqsUpTo(S, n - 1)
         IN  shorter \cup {Append(s, x) : s \in {t \in shorter : Len(t) = n - 1}, x \in S}

IsPrefix(s, t) == Len(s) <= Len(t) /\ SubSeq(t, 1, Len(s)) = s

VARIABLES
    hostname,       \* Options.hostname
    port,           \* Options.port
    dns_name,       \* QuicOptions.dns_name : Option<String>
    pc,             \* where the future driven by runtime.block_on stands
    error,          \* Some(kind) once main returns Err
    resolverDriver, \* the resolver's background task was spawned
    responses,      \* Some(answer of lookup_ip)
    address,        \* Some(SocketAddr) produced by get_address
    endpointDriver, \* "unspawned" | "running" | "failed" (failure logged)
    connectCall,    \* Some(endpoint.connect call: its arguments, whether it returned Ok)
    connDriver,     \* "unspawned" | "running" | "failed" (failure logged)
    session,        \* the Connection handle exists (handshake succeeded)
    openBiCalled,   \* connection.open_bi() was called
    streams,        \* Some(pair yielded by QuicOptions::connect)
    relayStarted,   \* run_stream_connection was called
    stdinData,      \* every byte typed on stdin so far
    stdinPos,       \* how many of them the program has read
    stdinClosed,    \* stdin reached end-of-input
    remoteData,     \* every byte the remote sent on the stream so far
    remotePos,      \* how many of them the program has read
    remoteFin,      \* the remote closed its sending side
    copyA,          \* io::copy(stdin, send)
    copyB,          \* io::copy(recv, stdout)
    transmitted,    \* bytes accepted by the stream's write half
    stdout,         \* bytes accepted by stdout
    ioError,        \* directions whose copy hit an I/O error
    summary,        \* Some([sent, received]) once the closing line is logged
    handles,        \* per value the pipeline future owned: "none" | "held" | "dropped"
    relayHalves     \* Some([reader, writer]): the halves run_stream_connection was given

args == <<hostname, port, dns_name>>
resolveVars == <<resolverDriver, responses, address>>
connectVars == <<connectCall, session, openBiCalled, streams>>
driverVars == <<endpointDriver, connDriver>>
envVars == <<stdinData, stdinClosed, remoteData, remoteFin>>
relayVars == <<relayStarted, relayHalves, stdinPos, remotePos, copyA, copyB, transmitted,
               stdout, ioError, summary>>
vars == <<args, handles, pc, error, resolveVars, connectVars, driverVars, envVars, relayVars>>

\* the values whose ownership the pipeline future takes: the Endpoint, the
\* Connection and the two halves of the stream
Handles == {"endpoint", "connection", "recv", "send"}

\* the values in hs become owned / go out of scope
Hold(hs) == [h \in Handles |-> IF h \in hs THEN "held" ELSE handles[h]]
Drop(hs) == [h \in Handles |-> IF h \in hs THEN "dropped" ELSE handles[h]]

\* a fresh io::copy future: empty buffer, nothing copied
NewCopy == [buf |-> <<>>, read_done |-> FALSE, amt |-> 0, done |-> FALSE]

Init ==
    /\ hostname \in Hostnames
    /\ port \in Ports
    /\ dns_name \in {None} \cup {Some(n) : n \in DnsNames}
    /\ pc = "setup"
    /\ error = None
    /\ resolverDriver = FALSE
    /\ responses = None
    /\ address = None
    /\ endpointDriver = "unspawned"
    /\ connectCall = None
    /\ connDriver = "unspawned"
    /\ session = FALSE
    /\ openBiCalled = FALSE
    /\ streams = None
    /\ relayStarted = FALSE
    /\ stdinData = <<>>
    /\ stdinPos = 0
    /\ stdinClosed = FALSE
    /\ remoteData = <<>>
    /\ remotePos = 0
    /\ remoteFin = FALSE
    /\ copyA = NewCopy
    /\ copyB = NewCopy
    /\ transmitted = <<>>
    /\ stdout = <<>>
    /\ ioError = {}
    /\ summary = None
    /\ handles = [h \in Handles |-> "none"]
    /\ relayHalves = None

\* the future resolves to Err(kind): block_on returns it and main exits
Fail(kind) ==
    /\ pc' = "failed"
    /\ error' = Some(kind)

\* ------------------------------------------------------------ main, setup
SetupOk ==
    /\ pc = "setup"
    /\ pc' = "from_system_conf"
    /\ UNCHANGED <<args, handles, error, resolveVars, connectVars, driverVars, envVars, relayVars>>

SetupErr ==
    /\ pc = "setup"
    /\ Fail("SetupFailed")
    /\ UNCHANGED <<args, handles, resolveVars, connectVars, driverVars, envVars, relayVars>>

\* ------------------------------------------------- Options::get_address
\* AsyncResolver::from_system_conf() succeeded: its driver is spawned
FromSystemConfOk ==
    /\ pc = "from_system_conf"
    /\ resolverDriver' = TRUE
    /\ pc' = "lookup_ip"
    /\ UNCHANGED <<args, handles, error, responses, address, connectVars, driverVars, envVars, relayVars>>

FromSystemConfErr ==
    /\ pc = "from_system_conf"
    /\ Fail("ResolverSetupFailed")
    /\ UNCHANGED <<args, handles, resolveVars, connectVars, driverVars, envVars, relayVars>>

\* variants of FirstCandidate: a fallback address for an empty answer; the
\* last candidate instead of the first
FirstCandidate_fallback(rs) == IF rs = <<>> THEN Some("0.0.0.0") ELSE Some(rs[1])

FirstCandidate_last(rs) == IF rs = <<>> THEN None ELSE Some(rs[Len(rs)])

\* responses.iter().next()
FirstCandidate(rs) == IF rs = <<>> THEN None ELSE Some(rs[1])

\* (ip, self.port).into()
SocketAddr(ip, p) == [ip |-> ip, port |-> p]

\* lookup_ip answered with rs; the match and the map run in the same poll
LookupIpOk ==
    /\ pc = "lookup_ip"
    /\ \E rs \in SeqsUpTo(Ips, MaxCandidates) :
        /\ responses' = Some(rs)
        /\ LET first == FirstCandidate(rs)
           IN  IF IsSome(first)
               THEN /\ address' = Some(SocketAddr(Unwrap(first), port))
                    /\ pc' = "bind"
                    /\ error' = error
               ELSE /\ Fail("NoDnsRecord")
                    /\ address' = address
    /\ UNCHANGED <<args, handles, resolverDriver, connectVars, driverVars, envVars, relayVars>>

LookupIpErr ==
    /\ pc = "lookup_ip"
    /\ Fail("LookupFailed")
    /\ UNCHANGED <<args, handles, resolveVars, connectVars, driverVars, envVars, relayVars>>

\* ------------------------------------------------- QuicOptions::connect
\* Endpoint::builder().bind("[::]:0") succeeded: its driver is spawned
\* variant of BindOk: the endpoint's driver is not spawned
BindOk_nospawn ==
    /\ pc = "bind"
    /\ pc' = "endpoint_connect"
    /\ handles' = Hold({"endpoint"})
    /\ UNCHANGED <<args, error, resolveVars, connectVars, driverVars, envVars, relayVars>>

BindOk ==
    /\ pc = "bind"
    /\ endpointDriver' = "running"
    /\ pc' = "endpoint_connect"
    /\ handles' = Hold({"endpoint"})
    /\ UNCHANGED <<args, error, resolveVars, connectVars, connDriver, envVars, relayVars>>

BindErr ==
    /\ pc = "bind"
    /\ Fail("EndpointBindFailed")
    /\ UNCHANGED <<args, handles, resolveVars, connectVars, driverVars, envVars, relayVars>>

\* variant of ServerName: the override is ignored
ServerName_hostname(override, host) == host

\* self.dns_name.as_ref().map(String::as_str).unwrap_or(hostname)
ServerName(override, host) == IF IsSome(override) THEN Unwrap(override) ELSE host

\* endpoint.connect(&address, server_name), returning Ok or Err
ConnectCall(ok) ==
    [address |-> Unwrap(address), server_name |-> ServerName(dns_name, hostname), ok |-> ok]

\* endpoint.connect(&address, server_name) returned the connecting future;
\* the closure that owns the endpoint returns, so the Endpoint goes out of scope
EndpointConnectOk ==
    /\ pc = "endpoint_connect"
    /\ connectCall' = Some(ConnectCall(TRUE))
    /\ pc' = "connecting"
    /\ handles' = Drop({"endpoint"})
    /\ UNCHANGED <<args, error, resolveVars, session, openBiCalled, streams, driverVars,
                   envVars, relayVars>>

EndpointConnectErr ==
    /\ pc = "endpoint_connect"
    /\ connectCall' = Some(ConnectCall(FALSE))
    /\ Fail("ConnectFailed")
    /\ handles' = Drop({"endpoint"})
    /\ UNCHANGED <<args, resolveVars, session, openBiCalled, streams, driverVars,
                   envVars, relayVars>>

\* the handshake completed: the connection driver is spawned and the next
\* and_then calls connection.open_bi() in the same poll.  That closure owns
\* the Connection and returns the future of open_bi, which does not borrow
\* it: the Connection goes out of scope there
\* variant of HandshakeOk: the Connection is kept next to the future of open_bi
HandshakeOk_kept ==
    /\ pc = "connecting"
    /\ session' = TRUE
    /\ connDriver' = "running"
    /\ openBiCalled' = TRUE
    /\ pc' = "open_bi"
    /\ handles' = Hold({"connection"})
    /\ UNCHANGED <<args, error, resolveVars, connectCall, streams, endpointDriver,
                   envVars, relayVars>>

HandshakeOk ==
    /\ pc = "connecting"
    /\ session' = TRUE
    /\ connDriver' = "running"
    /\ openBiCalled' = TRUE
    /\ pc' = "open_bi"
    /\ handles' = Drop({"connection"})
    /\ UNCHANGED <<args, error, resolveVars, connectCall, streams, endpointDriver,
                   envVars, relayVars>>

\* variants of HandshakeErr: the failed handshake is retried from the
\* resolver; the failed handshake is ignored and a stream is requested
HandshakeErr_retry ==
    /\ pc = "connecting"
    /\ pc' = "from_system_conf"
    /\ UNCHANGED <<args, handles, error, resolveVars, connectVars, driverVars, envVars, relayVars>>

HandshakeErr_ignored ==
    /\ pc = "connecting"
    /\ openBiCalled' = TRUE
    /\ pc' = "open_bi"
    /\ UNCHANGED <<args, handles, error, resolveVars, connectCall, session, streams, driverVars,
                   envVars, relayVars>>

HandshakeErr ==
    /\ pc = "connecting"
    /\ Fail("HandshakeFailed")
    /\ UNCHANGED <<args, handles, resolveVars, connectVars, driverVars, envVars, relayVars>>

\* variant of SwapPair: the pair is passed on as the session yields it
SwapPair_kept(p) == p

\* .map(|(send, recv)| (recv, send))
SwapPair(p) == <<p[2], p[1]>>

\* |(recv, send)| run_stream_connection(recv, send): the first of the pair is
\* read from, the second written to
RelayArgs(p) == [reader |-> p[1], writer |-> p[2]]

\* an AsyncRead is the stream's read half, an AsyncWrite its write half
Readable(h) == h = "recv"
Writable(h) == h = "send"

\* open_bi() yielded (send, recv); main's and_then passes the swapped pair
\* to run_stream_connection, which builds the join of the two copies
OpenBiOk ==
    /\ pc = "open_bi"
    /\ streams' = Some(SwapPair(<<"send", "recv">>))
    /\ relayStarted' = TRUE
    /\ pc' = "relay"
    /\ handles' = Hold({"recv", "send"})
    /\ relayHalves' = Some(RelayArgs(Unwrap(streams')))
    /\ UNCHANGED <<args, error, resolveVars, connectCall, session, openBiCalled, driverVars,
                   envVars, stdinPos, remotePos, copyA, copyB, transmitted, stdout,
                   ioError, summary>>

\* variant of OpenBiErr: the error is dropped and the run ends as a success
OpenBiErr_done ==
    /\ pc = "open_bi"
    /\ pc' = "done"
    /\ UNCHANGED <<args, handles, error, resolveVars, connectVars, driverVars, envVars,
                   relayVars>>

OpenBiErr ==
    /\ pc = "open_bi"
    /\ Fail("StreamOpenFailed")
    /\ UNCHANGED <<args, handles, resolveVars, connectVars, driverVars, envVars, relayVars>>

\* a spawned driver ends in error while the runtime lives: error!() logs it
EndpointDriverErr ==
    /\ pc \notin {"done", "failed"}
    /\ endpointDriver = "running"
    /\ endpointDriver' = "failed"
    /\ UNCHANGED <<args, handles, pc, error, resolveVars, connectVars, connDriver, envVars, relayVars>>

\* variant of ConnDriverErr: the driver's error ends the run
ConnDriverErr_fatal ==
    /\ pc \notin {"done", "failed"}
    /\ connDriver = "running"
    /\ connDriver' = "failed"
    /\ Fail("ConnectionLost")
    /\ UNCHANGED <<args, handles, resolveVars, connectVars, endpointDriver, envVars,
                   relayVars>>

ConnDriverErr ==
    /\ pc \notin {"done", "failed"}
    /\ connDriver = "running"
    /\ connDriver' = "failed"
    /\ UNCHANGED <<args, handles, pc, error, resolveVars, connectVars, endpointDriver, envVars,
                   relayVars>>

\* ------------------------------------------------ run_stream_connection
\* The environment: stdin and the remote peer provide bytes and close when
\* they choose.  What arrives before the relay starts waits in the pipe and
\* in the stream, so arrivals need to be modelled only from then on.
StdinType ==
    /\ pc = "relay"
    /\ ~stdinClosed
    /\ Len(stdinData) < MaxStdin
    /\ stdinData' = Append(stdinData, StdinByte(Len(stdinData) + 1))
    /\ UNCHANGED <<args, handles, pc, error, resolveVars, connectVars, driverVars, stdinClosed,
                   remoteData, remoteFin, relayVars>>

StdinClose ==
    /\ pc = "relay"
    /\ ~stdinClosed
    /\ stdinClosed' = TRUE
    /\ UNCHANGED <<args, handles, pc, error, resolveVars, connectVars, driverVars, stdinData,
                   remoteData, remoteFin, relayVars>>

RemoteSend ==
    /\ pc = "relay"
    /\ ~remoteFin
    /\ Len(remoteData) < MaxRemote
    /\ remoteData' = Append(remoteData, RemoteByte(Len(remoteData) + 1))
    /\ UNCHANGED <<args, handles, pc, error, resolveVars, connectVars, driverVars, stdinData,
                   stdinClosed, remoteFin, relayVars>>

RemoteFin ==
    /\ pc = "relay"
    /\ ~remoteFin
    /\ remoteFin' = TRUE
    /\ UNCHANGED <<args, handles, pc, error, resolveVars, connectVars, driverVars, stdinData,
                   stdinClosed, remoteData, relayVars>>

Min(a, b) == IF a <= b THEN a ELSE b

\* io::copy polls its reader only when its buffer is empty and no
\* end-of-input was seen
WantsRead(c) == ~c.done /\ c.buf = <<>> /\ ~c.read_done

\* the reader returned n > 0 bytes: they fill the buffer
CopyFill(c, chunk) == [c EXCEPT !.buf = chunk]

\* the reader returned 0: end of input
CopyEof(c) == [c EXCEPT !.read_done = TRUE]

\* variant of AtEof: an idle reader counts as closed
AtEof_idle(avail, closed) == avail = 0

\* the reader has nothing more and never will: read returns 0
AtEof(avail, closed) == avail = 0 /\ closed

\* variant of Accepted: the whole buffer is handed over, whatever was accepted
Accepted_whole(c, i) == c.buf

\* the writer accepted the first i bytes of the buffer
Accepted(c, i) == SubSeq(c.buf, 1, i)

CopyDrain(c, i) ==
    [c EXCEPT !.buf = SubSeq(c.buf, i + 1, Len(c.buf)), !.amt = c.amt + i]

\* variant of CanFinish: a copy that moved nothing does not finish
CanFinish_nonempty(c) == ~c.done /\ c.buf = <<>> /\ c.read_done /\ c.amt > 0

\* everything read was written and end-of-input was seen: flush and finish
CanFinish(c) == ~c.done /\ c.buf = <<>> /\ c.read_done

CopyFinish(c) == [c EXCEPT !.done = TRUE]

\* direction A: io::copy(stdin, send)
CopyARead ==
    /\ pc = "relay"
    /\ WantsRead(copyA)
    /\ \E n \in 1..Min(BufSize, Len(stdinData) - stdinPos) :
        /\ copyA' = CopyFill(copyA, SubSeq(stdinData, stdinPos + 1, stdinPos + n))
        /\ stdinPos' = stdinPos + n
    /\ UNCHANGED <<args, handles, pc, error, resolveVars, connectVars, driverVars, envVars,
                   relayStarted, relayHalves, remotePos, copyB, transmitted, stdout, ioError, summary>>

CopyAEof ==
    /\ pc = "relay"
    /\ WantsRead(copyA)
    /\ AtEof(Len(stdinData) - stdinPos, stdinClosed)
    /\ copyA' = CopyEof(copyA)
    /\ UNCHANGED <<args, handles, pc, error, resolveVars, connectVars, driverVars, envVars,
                   relayStarted, relayHalves, stdinPos, remotePos, copyB, transmitted, stdout, ioError,
                   summary>>

CopyAWrite ==
    /\ pc = "relay"
    /\ Writable(Unwrap(relayHalves).writer)
    /\ ~copyA.done
    /\ \E i \in 1..Len(copyA.buf) :
        /\ transmitted' = transmitted \o Accepted(copyA, i)
        /\ copyA' = CopyDrain(copyA, i)
    /\ UNCHANGED <<args, handles, pc, error, resolveVars, connectVars, driverVars, envVars,
                   relayStarted, relayHalves, stdinPos, remotePos, copyB, stdout, ioError, summary>>

\* variant of CopyAFlush: the finished copy lets go of the write half
CopyAFlush_release ==
    /\ pc = "relay"
    /\ CanFinish(copyA)
    /\ copyA' = CopyFinish(copyA)
    /\ handles' = Drop({"send"})
    /\ UNCHANGED <<args, pc, error, resolveVars, connectVars, driverVars, envVars,
                   relayStarted, relayHalves, stdinPos, remotePos, copyB, transmitted, stdout,
                   ioError, summary>>

CopyAFlush ==
    /\ pc = "relay"
    /\ CanFinish(copyA)
    /\ copyA' = CopyFinish(copyA)
    /\ UNCHANGED <<args, handles, pc, error, resolveVars, connectVars, driverVars, envVars,
                   relayStarted, relayHalves, stdinPos, remotePos, copyB, transmitted, stdout, ioError,
                   summary>>

\* variants of CopyAErr: the closing line with the counts so far is logged
\* on failure; the join waits for direction B before it reports the error
CopyAErr_counts ==
    /\ pc = "relay"
    /\ ~copyA.done
    /\ ioError' = ioError \cup {"A"}
    /\ Fail("RelayIOFailed")
    /\ summary' = Some([sent |-> copyA.amt, received |-> copyB.amt])
    /\ handles' = Drop({"recv", "send"})
    /\ UNCHANGED <<args, resolveVars, connectVars, driverVars, envVars, relayStarted,
                   relayHalves, stdinPos, remotePos, copyA, copyB, transmitted, stdout>>

CopyAErr_waits ==
    /\ pc = "relay"
    /\ ~copyA.done
    /\ "A" \notin ioError
    /\ ioError' = ioError \cup {"A"}
    /\ IF copyB.done
       THEN Fail("RelayIOFailed") /\ handles' = Drop({"recv", "send"})
       ELSE UNCHANGED <<pc, error, handles>>
    /\ UNCHANGED <<args, resolveVars, connectVars, driverVars, envVars, relayStarted,
                   relayHalves, stdinPos, remotePos, copyA, copyB, transmitted, stdout, summary>>

\* a read, a write (also one that accepts 0 bytes) or the flush of
\* direction A failed: the join resolves to that error in the same poll and
\* gives up both copies with the halves they own
CopyAErr ==
    /\ pc = "relay"
    /\ ~copyA.done
    /\ ioError' = ioError \cup {"A"}
    /\ Fail("RelayIOFailed")
    /\ handles' = Drop({"recv", "send"})
    /\ UNCHANGED <<args, resolveVars, connectVars, driverVars, envVars, relayStarted, relayHalves,
                   stdinPos, remotePos, copyA, copyB, transmitted, stdout, summary>>

\* direction B: io::copy(recv, stdout)
\* variant of CopyBRead: direction B starts once direction A has finished
CopyBRead_afterA ==
    /\ pc = "relay"
    /\ copyA.done
    /\ Readable(Unwrap(relayHalves).reader)
    /\ WantsRead(copyB)
    /\ \E n \in 1..Min(BufSize, Len(remoteData) - remotePos) :
        /\ copyB' = CopyFill(copyB, SubSeq(remoteData, remotePos + 1, remotePos + n))
        /\ remotePos' = remotePos + n
    /\ UNCHANGED <<args, handles, pc, error, resolveVars, connectVars, driverVars, envVars,
                   relayStarted, relayHalves, stdinPos, copyA, transmitted, stdout, ioError,
                   summary>>

CopyBRead ==
    /\ pc = "relay"
    /\ Readable(Unwrap(relayHalves).reader)
    /\ WantsRead(copyB)
    /\ \E n \in 1..Min(BufSize, Len(remoteData) - remotePos) :
        /\ copyB' = CopyFill(copyB, SubSeq(remoteData, remotePos + 1, remotePos + n))
        /\ remotePos' = remotePos + n
    /\ UNCHANGED <<args, handles, pc, error, resolveVars, connectVars, driverVars, envVars,
                   relayStarted, relayHalves, stdinPos, copyA, transmitted, stdout, ioError, summary>>

CopyBEof ==
    /\ pc = "relay"
    /\ Readable(Unwrap(relayHalves).reader)
    /\ WantsRead(copyB)
    /\ AtEof(Len(remoteData) - remotePos, remoteFin)
    /\ copyB' = CopyEof(copyB)
    /\ UNCHANGED <<args, handles, pc, error, resolveVars, connectVars, driverVars, envVars,
                   relayStarted, relayHalves, stdinPos, remotePos, copyA, transmitted, stdout, ioError,
                   summary>>

CopyBWrite ==
    /\ pc = "relay"
    /\ ~copyB.done
    /\ \E i \in 1..Len(copyB.buf) :
        /\ stdout' = stdout \o Accepted(copyB, i)
        /\ copyB' = CopyDrain(copyB, i)
    /\ UNCHANGED <<args, handles, pc, error, resolveVars, connectVars, driverVars, envVars,
                   relayStarted, relayHalves, stdinPos, remotePos, copyA, transmitted, ioError, summary>>

CopyBFlush ==
    /\ pc = "relay"
    /\ CanFinish(copyB)
    /\ copyB' = CopyFinish(copyB)
    /\ UNCHANGED <<args, handles, pc, error, resolveVars, connectVars, driverVars, envVars,
                   relayStarted, relayHalves, stdinPos, remotePos, copyA, transmitted, stdout, ioError,
                   summary>>

\* variant of CopyBErr: the error ends direction B without failing the join
CopyBErr_swallowed ==
    /\ pc = "relay"
    /\ ~copyB.done
    /\ ioError' = ioError \cup {"B"}
    /\ copyB' = CopyFinish(copyB)
    /\ UNCHANGED <<args, handles, pc, error, resolveVars, connectVars, driverVars, envVars,
                   relayStarted, relayHalves, stdinPos, remotePos, copyA, transmitted, stdout, summary>>

CopyBErr ==
    /\ pc = "relay"
    /\ ~copyB.done
    /\ ioError' = ioError \cup {"B"}
    /\ Fail("RelayIOFailed")
    /\ handles' = Drop({"recv", "send"})
    /\ UNCHANGED <<args, resolveVars, connectVars, driverVars, envVars, relayStarted, relayHalves,
                   stdinPos, remotePos, copyA, copyB, transmitted, stdout, summary>>

\* variant of JoinReady: the first future to finish ends the join
JoinReady_either(a, b) == a.done \/ b.done

\* Future::join is ready once both of its futures are
JoinReady(a, b) == a.done /\ b.done

\* variant of Summary: the two counts change places
Summary_swapped(a, b) == [sent |-> b.amt, received |-> a.amt]

\* |((sent, _, _), (received, _, _))| info!("... Sent {} bytes, received {} bytes.")
Summary(a, b) == [sent |-> a.amt, received |-> b.amt]

\* the join resolved: the closing line is logged, the closure lets go of the
\* readers and writers the copies handed back, block_on returns Ok(())
RelayDone ==
    /\ pc = "relay"
    /\ JoinReady(copyA, copyB)
    /\ summary' = Some(Summary(copyA, copyB))
    /\ pc' = "done"
    /\ handles' = Drop({"recv", "send"})
    /\ UNCHANGED <<args, error, resolveVars, connectVars, driverVars, envVars, relayStarted, relayHalves,
                   stdinPos, remotePos, copyA, copyB, transmitted, stdout, ioError>>

Next ==
    \/ SetupOk
    \/ SetupErr
    \/ FromSystemConfOk
    \/ FromSystemConfErr
    \/ LookupIpOk
    \/ LookupIpErr
    \/ BindOk
    \/ BindErr
    \/ EndpointConnectOk
    \/ EndpointConnectErr
    \/ HandshakeOk
    \/ HandshakeErr
    \/ OpenBiOk
    \/ OpenBiErr
    \/ EndpointDriverErr
    \/ ConnDriverErr
    \/ StdinType
    \/ StdinClose
    \/ RemoteSend
    \/ RemoteFin
    \/ CopyARead
    \/ CopyAEof
    \/ CopyAWrite
    \/ CopyAFlush
    \/ CopyAErr
    \/ CopyBRead
    \/ CopyBEof
    \/ CopyBWrite
    \/ CopyBFlush
    \/ CopyBErr
    \/ RelayDone

Spec == Init /\ [][Next]_vars

\* A copy step whose I/O is ready: the runtime polls the pipeline whenever the
\* reader has bytes or end-of-input to give, or the writer takes bytes
RelayProgress ==
    \/ CopyARead
    \/ CopyAEof
    \/ CopyAWrite
    \/ CopyAFlush
    \/ CopyBRead
    \/ CopyBEof
    \/ CopyBWrite
    \/ CopyBFlush
    \/ RelayDone

\* Ready I/O is eventually served.  Nothing obliges stdin or the remote to
\* send or to close, nor an awaited operation to fail, and the code sets no
\* timeout.
FairSpec == Spec /\ WF_vars(RelayProgress)

\* An awaited operation of the resolver or of the connector comes back, with
\* Ok or with Err
AwaitedReturns ==
    \/ SetupOk
    \/ SetupErr
    \/ FromSystemConfOk
    \/ FromSystemConfErr
    \/ LookupIpOk
    \/ LookupIpErr
    \/ BindOk
    \/ BindErr
    \/ EndpointConnectOk
    \/ EndpointConnectErr
    \/ HandshakeOk
    \/ HandshakeErr
    \/ OpenBiOk
    \/ OpenBiErr

\* One command line: no guard reads the arguments, so the steps a run can
\* take, and with them whether it ends, are the same for every other
LiveInit ==
    /\ Init
    /\ port = 4433
    /\ dns_name = None

\* Every awaited operation eventually completes or fails, ready I/O is
\* eventually served, stdin eventually reaches end-of-input and the remote
\* eventually closes its sending side.
LiveSpec ==
    /\ LiveInit
    /\ [][Next]_vars
    /\ WF_vars(AwaitedReturns)
    /\ WF_vars(RelayProgress)
    /\ WF_vars(StdinClose)
    /\ WF_vars(RemoteFin)

\* a step that is not a failure: an operation succeeds, a copy moves on, or
\* one side closes
Progress ==
    \/ SetupOk
    \/ FromSystemConfOk
    \/ LookupIpOk
    \/ BindOk
    \/ EndpointConnectOk
    \/ HandshakeOk
    \/ OpenBiOk
    \/ RelayProgress
    \/ StdinClose
    \/ RemoteFin

\* ------------------------------------------------- the orchestrator's stages
Stage ==
    CASE pc = "setup" -> "Start"
      [] pc \in {"from_system_conf", "lookup_ip"} -> "Resolving"
      [] pc \in {"bind", "endpoint_connect", "connecting", "open_bi"} -> "Connecting"
      [] pc = "relay" -> "Relaying"
      [] pc = "done" -> "Done"
      [] pc = "failed" -> "Failed"

Forward ==
    {<<"Start", "Resolving">>, <<"Resolving", "Connecting">>,
     <<"Connecting", "Relaying">>, <<"Relaying", "Done">>}

FailFrom(stages) == {<<s, "Failed">> : s \in stages}

\* main returns what block_on returned: Ok(()) exits with 0, Err with 1
ExitCode ==
    CASE pc = "done" -> Some(0)
      [] pc = "failed" -> Some(1)
      [] OTHER -> None

\* the failures a stage can end in
KindsOf(stage) ==
    CASE stage = "Start" -> {"SetupFailed"}
      [] stage = "Resolving" -> {"ResolverSetupFailed", "LookupFailed", "NoDnsRecord"}
      [] stage = "Connecting" ->
            {"EndpointBindFailed", "ConnectFailed", "HandshakeFailed", "StreamOpenFailed"}
      [] stage = "Relaying" -> {"RelayIOFailed"}
      [] OTHER -> {}

\* the output a stage needs is there when the stage is entered
InputsReady ==
    /\ Stage = "Connecting" => IsSome(address)
    /\ Stage = "Relaying" => IsSome(streams)
    /\ Stage = "Done" => IsSome(summary)

\* ------------------------------------------------------------------ claims

\* C1 as stated: every step of main keeps the stage or moves it along
\* Start -> Resolving -> Connecting -> Relaying -> Done, or to Failed from
\* Resolving, Connecting or Relaying only; nothing leaves Done or Failed.
C1_FailedOnlyFromPipeline ==
    [][Stage' = Stage
        \/ <<Stage, Stage'>> \in Forward \cup FailFrom({"Resolving", "Connecting", "Relaying"})]_vars

\* C1 as amended: the same order, each stage entered only with its
\* predecessor's output, nothing leaves Done or Failed, and Failed is entered
\* from Start (setup fails), Resolving, Connecting or Relaying.
C1_StageOrder ==
    [][/\ \/ Stage' = Stage
          \/ <<Stage, Stage'>> \in
                Forward \cup FailFrom({"Start", "Resolving", "Connecting", "Relaying"})
       /\ InputsReady']_vars

C1_Witness == pc = "done" /\ IsSome(address) /\ IsSome(streams) /\ IsSome(summary)

\* C2: once the lookup answered with the empty sequence the run has failed
\* with NoDnsRecord, and no endpoint is bound, no connect attempted, no stream
\* requested or opened and no relay started, then or later.
C2_EmptyLookupStops ==
    responses = Some(<<>>) =>
        /\ pc = "failed"
        /\ error = Some("NoDnsRecord")
        /\ address = None
        /\ endpointDriver = "unspawned"
        /\ connectCall = None
        /\ ~session
        /\ ~openBiCalled
        /\ streams = None
        /\ ~relayStarted

C2_Witness == responses = Some(<<>>) /\ error = Some("NoDnsRecord")

\* C3: a stream pair exists only if endpoint.connect returned Ok and the
\* handshake succeeded; if either failed the run has failed, open_bi was never
\* called and run_stream_connection never started.
C3_StreamNeedsHandshake ==
    /\ IsSome(streams) => IsSome(connectCall) /\ Unwrap(connectCall).ok /\ session
    /\ openBiCalled => session
    /\ error \in {Some("ConnectFailed"), Some("HandshakeFailed")} =>
          /\ pc = "failed"
          /\ ~session
          /\ ~openBiCalled
          /\ streams = None
          /\ ~relayStarted

C3_Witness == error = Some("HandshakeFailed") /\ IsSome(connectCall) /\ Unwrap(connectCall).ok

\* C4: for a non-empty answer get_address yields the first candidate with the
\* requested port, whatever follows it; for the empty answer it fails with
\* NoDnsRecord.
C4_FirstCandidateWithPort ==
    IsSome(responses) =>
        LET rs == Unwrap(responses)
        IN  IF Len(rs) = 0
            THEN address = None /\ error = Some("NoDnsRecord")
            ELSE address = Some([ip |-> rs[1], port |-> port])

C4_Witness ==
    /\ IsSome(responses)
    /\ Len(Unwrap(responses)) = 2
    /\ Unwrap(responses)[1] # Unwrap(responses)[2]
    /\ IsSome(address)

\* C5 as stated: the name passed to endpoint.connect is the override when it
\* is supplied and non-empty, and the hostname otherwise.
C5_NonEmptyOverride ==
    IsSome(connectCall) =>
        Unwrap(connectCall).server_name =
            IF IsSome(dns_name) /\ Unwrap(dns_name) # "" THEN Unwrap(dns_name) ELSE hostname

\* C5 as amended: the name passed to endpoint.connect is the override whenever
\* one is supplied, the empty string included, and the hostname when none is.
C5_OverrideWhenSupplied ==
    IsSome(connectCall) =>
        LET name == Unwrap(connectCall).server_name
        IN  /\ dns_name = None => name = hostname
            /\ \A n \in DnsNames : dns_name = Some(n) => name = n

C5_Witness ==
    /\ IsSome(connectCall)
    /\ dns_name = Some("")
    /\ Unwrap(connectCall).server_name = ""

\* C6: the run is Done only when both copies have finished: the remote has
\* closed, every byte it sent is on stdout, and the received count is their
\* number.
C6_DoneNeedsBoth ==
    pc = "done" =>
        /\ copyA.done
        /\ copyB.done
        /\ remoteFin
        /\ stdout = remoteData
        /\ IsSome(summary)
        /\ Unwrap(summary).received = Len(remoteData)

C6_Witness ==
    /\ pc = "done"
    /\ stdinData = <<>>
    /\ Len(remoteData) >= 2

\* C7 as stated: once one side has closed (the copy saw end-of-input on stdin,
\* or on the stream) the relay ends and the run finishes.
C7_OneSideEnds ==
    (pc = "relay" /\ (copyA.read_done \/ copyB.read_done)) ~> (pc \in {"done", "failed"})

\* C7 as amended: the relay ends successfully only once both sides have
\* closed: stdin reached end-of-input and the remote closed its sending side.
C7_DoneNeedsBothClosed ==
    pc = "done" =>
        /\ stdinClosed
        /\ remoteFin
        /\ copyA.read_done
        /\ copyB.read_done

C7_Witness ==
    /\ pc = "relay"
    /\ stdinClosed
    /\ copyA.done
    /\ ~remoteFin

\* C8: an I/O error in either copy fails the run: it is Failed, never Done,
\* and no summary is logged, however far the other copy got.
C8_IoErrorFails ==
    ioError # {} =>
        /\ pc = "failed"
        /\ error = Some("RelayIOFailed")
        /\ summary = None

C8_Witness == ioError = {"B"} /\ copyA.done /\ pc = "failed"

\* C9: on success the summary holds the number of bytes read from stdin and
\* written to the write half, and the number of bytes the remote sent.
C9_SummaryCounts ==
    pc = "done" =>
        /\ summary = Some([sent |-> Len(stdinData), received |-> Len(remoteData)])
        /\ stdinPos = Len(stdinData)
        /\ Len(transmitted) = Len(stdinData)
        /\ remotePos = Len(remoteData)

C9_Witness ==
    /\ pc = "done"
    /\ Len(stdinData) = 1
    /\ Len(remoteData) = 2

\* C10: what the write half got is a prefix of what was read from stdin, what
\* stdout got is a prefix of what was read from the remote, itself a prefix of
\* what the remote sent; on success each is the whole sequence.
C10_PrefixThenWhole ==
    /\ IsPrefix(transmitted, SubSeq(stdinData, 1, stdinPos))
    /\ IsPrefix(stdout, SubSeq(remoteData, 1, remotePos))
    /\ pc = "done" => transmitted = stdinData /\ stdout = remoteData

C10_Witness ==
    /\ pc = "relay"
    /\ Len(transmitted) = 1
    /\ stdinPos = 2
    /\ Len(stdout) = 1
    /\ remotePos = 2

\* C11: the exit code is 0 exactly when resolution, connection and relay all
\* succeeded and 1 otherwise; a failing run surfaces one failure, that of the
\* stage it stood in when it first failed, and nothing replaces it.
C11_ExitCode ==
    /\ [](ExitCode = Some(0) <=>
            /\ IsSome(address)
            /\ IsSome(streams)
            /\ JoinReady(copyA, copyB)
            /\ IsSome(summary)
            /\ error = None)
    /\ [](ExitCode = Some(1) <=> IsSome(error))
    /\ [](IsSome(error) => ~(IsSome(streams) /\ JoinReady(copyA, copyB)))
    /\ [][/\ IsSome(error) => error' = error
          /\ error' # error => Unwrap(error') \in KindsOf(Stage)]_vars

C11_Witness == ExitCode = Some(1) /\ error = Some("StreamOpenFailed") /\ IsSome(address)

\* C12: connect yields the session's read half first and its write half
\* second; the relay reads from the first and writes to the second, so only
\* stdin bytes reach the write half and only the remote's bytes reach stdout.
C12_ReadHalfFirst ==
    /\ IsSome(streams) => Unwrap(streams) = <<"recv", "send">>
    /\ IsSome(relayHalves) => Unwrap(relayHalves) = [reader |-> "recv", writer |-> "send"]
    /\ relayStarted <=> IsSome(relayHalves)
    /\ \A i \in 1..Len(transmitted) : \E k \in 1..Len(stdinData) : transmitted[i] = StdinByte(k)
    /\ \A i \in 1..Len(stdout) : \E k \in 1..Len(remoteData) : stdout[i] = RemoteByte(k)

C12_Witness ==
    /\ IsSome(streams)
    /\ Len(transmitted) >= 1
    /\ Len(stdout) >= 1

\* C13 as stated: from the stream being opened until the relay has completed
\* or failed, the Connection handle is not dropped.
C13_HandleKept == pc = "relay" => handles["connection"] # "dropped"

\* C13 as amended: the Connection handle goes out of scope as soon as open_bi
\* has been called on it; what is held for the whole relay, until it has
\* completed or failed, is the two halves of the stream.
C13_HalvesKept ==
    /\ openBiCalled <=> handles["connection"] = "dropped"
    /\ pc = "relay" => handles["recv"] = "held" /\ handles["send"] = "held"
    /\ pc \in {"done", "failed"} => \A h \in Handles : handles[h] # "held"

C13_Witness ==
    /\ pc = "relay"
    /\ handles["connection"] = "dropped"
    /\ handles["send"] = "held"
    /\ Len(stdout) >= 1

\* C14: the failure of a driving task changes nothing but that task's own
\* state (it is logged): stage, error, outcome and every value of the
\* pipeline stay as they are; and the join, once ready, resolves whatever the
\* drivers do.
C14_DriverFailureOnlyLogged ==
    /\ [][(endpointDriver' # endpointDriver /\ endpointDriver' = "failed")
            \/ (connDriver' # connDriver /\ connDriver' = "failed")
          => UNCHANGED <<args, handles, pc, error, resolveVars, connectVars, envVars,
                         relayVars>>]_vars
    /\ [](pc = "relay" /\ JoinReady(copyA, copyB) => ENABLED RelayDone)

C14_Witness ==
    /\ pc = "done"
    /\ connDriver = "failed"
    /\ endpointDriver = "running"

\* C15: bind, then the endpoint's driver, then endpoint.connect, then the
\* handshake, then the connection's driver, then open_bi, each only after the
\* one before succeeded; no endpoint driver without a bound endpoint.
C15_ConnectorOrder ==
    /\ endpointDriver # "unspawned" <=> handles["endpoint"] # "none"
    /\ error = Some("EndpointBindFailed") => endpointDriver = "unspawned" /\ connectCall = None
    /\ IsSome(connectCall) => endpointDriver # "unspawned"
    /\ session => IsSome(connectCall) /\ Unwrap(connectCall).ok
    /\ connDriver # "unspawned" <=> session
    /\ openBiCalled => connDriver # "unspawned"
    /\ IsSome(streams) => openBiCalled

C15_Witness ==
    /\ IsSome(streams)
    /\ endpointDriver = "running"
    /\ connDriver = "running"

\* C16: neither copy waits for the other: whatever direction A does, also
\* when it is blocked on stdin, each step direction B has the I/O for can be
\* taken, and the same with the directions exchanged.
C16_NoOrderBetweenCopies ==
    pc = "relay" =>
        /\ WantsRead(copyB) /\ remotePos < Len(remoteData) => ENABLED CopyBRead
        /\ WantsRead(copyB) /\ remotePos = Len(remoteData) /\ remoteFin => ENABLED CopyBEof
        /\ ~copyB.done /\ copyB.buf # <<>> => ENABLED CopyBWrite
        /\ CanFinish(copyB) => ENABLED CopyBFlush
        /\ WantsRead(copyA) /\ stdinPos < Len(stdinData) => ENABLED CopyARead
        /\ WantsRead(copyA) /\ stdinPos = Len(stdinData) /\ stdinClosed => ENABLED CopyAEof
        /\ ~copyA.done /\ copyA.buf # <<>> => ENABLED CopyAWrite
        /\ CanFinish(copyA) => ENABLED CopyAFlush

C16_Witness ==
    /\ pc = "relay"
    /\ WantsRead(copyA) /\ stdinPos = Len(stdinData) /\ ~stdinClosed
    /\ copyA.amt = 0
    /\ Len(stdout) >= 2

\* C17 as stated: a relay that failed on an I/O error reports the byte counts
\* reached before the failure.
C17_CountsReported ==
    ioError # {} => summary = Some([sent |-> copyA.amt, received |-> copyB.amt])

\* C17 as amended: a relay that failed on an I/O error reports that error
\* alone: the counts reached before the failure are not reported.
C17_ErrorWithoutCounts ==
    ioError # {} =>
        /\ error \in {Some(k) : k \in KindsOf("Relaying")}
        /\ summary = None
        /\ pc = "failed"

C17_Witness ==
    /\ ioError = {"A"}
    /\ copyA.amt >= 1
    /\ copyB.amt >= 1
    /\ summary = None

\* C18: the write half is let go of only in the step that ends the relay:
\* after stdin's end-of-input it stays held until direction B has finished
\* too, or the relay has failed.
C18_WriteHalfKept ==
    [][handles["send"] = "held" /\ handles'["send"] # "held" =>
          /\ pc = "relay"
          /\ pc' \in {"done", "failed"}
          /\ pc' = "done" => copyB.done]_vars

C18_Witness ==
    /\ pc = "relay"
    /\ copyA.done
    /\ ~copyB.done
    /\ copyB.buf # <<>>
    /\ handles["send"] = "held"

\* C19: the step in which a copy meets an I/O error fails the run; from then
\* on neither direction reads or writes, one error is recorded and no summary
\* is logged.
C19_FailsAtFirstError ==
    /\ [](ioError # {} => pc = "failed" /\ Cardinality(ioError) = 1 /\ summary = None)
    /\ [][ioError' # ioError => pc = "relay" /\ pc' = "failed"]_vars
    /\ [][ioError # {} =>
            UNCHANGED <<stdinPos, remotePos, copyA, copyB, transmitted, stdout, summary>>]_vars

C19_Witness ==
    /\ ioError = {"A"}
    /\ ~copyB.done
    /\ copyB.buf # <<>>
    /\ pc = "failed"

\* C20: with every awaited operation returning, ready I/O served and both
\* sides closing in the end, every run reaches Done or Failed; and in every
\* other state some step that is not a failure can be taken.
C20_Terminates ==
    /\ <>(pc \in {"done", "failed"})
    /\ [](pc \notin {"done", "failed"} => ENABLED Progress)

C20_Witness ==
    /\ pc = "done"
    /\ Len(stdinData) >= 2
    /\ Len(remoteData) >= 2
====
